---- MODULE Spec2Model ----
(***************************************************************************)
(* Spaced-repetition scheduling of kanji_flow: the SM-2 card state machine *)
(* (app/srs_algorithm.py), the queue selection and daily counters          *)
(* (app/crud.py) and the study / submit_review handlers (app/main.py).     *)
(*                                                                         *)
(* Units.  Instants are whole minutes since midnight of day 0; a calendar  *)
(* date is a day number.  ease_factor is kept in hundredths (2.5 is 250),  *)
(* so 0.2, 0.14 and 0.1 are 20, 14 and 10.  The source computes in binary  *)
(* floating point: its ease factors differ from these decimals by a few    *)
(* units in the last place, which decides round(interval * ease_factor)    *)
(* only where the decimal product lies halfway between two integers; there *)
(* both integers are outcomes of the model (RoundOutcomes).                *)
(***************************************************************************)
EXTENDS Integers, Sequences, FiniteSets, TLC

VARIABLES
    now,        \* the clock: datetime.now(), in minutes
    ticks,      \* how many times the clock has advanced
    card,       \* the Card object handed to sm2_algorithm
    policy,     \* [steps, grad]: learning_steps_minutes, graduating_interval_days
    calls,      \* how many sm2_algorithm calls were made on card
    call,       \* the latest sm2_algorithm call: its quality, its instant (at),
                \* the policy it was given, and the number of correct answers
                \* in a row it ends (streak, 0 after a lapse)
    prev,       \* card as the latest sm2_algorithm call received it
    cards,      \* the cards table: id -> row
    history,    \* the review_history table, in insertion order
    deck,       \* the row of the decks table (the deck's own settings)
    settings,   \* the settings table (the global settings)
    response,   \* what the latest request answered
    pages       \* session -> the card on the study page the session has open

schedVars == <<card, policy, calls, call, prev>>
deckVars == <<cards, history, deck, settings, response, pages>>
vars == <<now, ticks, card, policy, calls, call, prev,
          cards, history, deck, settings, response, pages>>

(***************************************************************************)
(* Bounds of the model                                                     *)
(***************************************************************************)
MaxAnswers == 8
MaxPolicyAnswers == 6
MaxTicks == 2
NumCards == 3
MaxReviews == 2

\* events logged in a run of the review history
MaxEvents == 3

\* cards added to a deck while it is studied
MaxCreated == 2

\* answers given while the clock runs
MaxClockAnswers == 3

(***************************************************************************)
(* Time                                                                    *)
(***************************************************************************)
MinutesPerDay == 1440

\* Optional[...] = None, for the date fields (instants and dates are >= 0)
None == -1

\* datetime.date(): the calendar date of an instant
Date(t) == t \div MinutesPerDay

\* timedelta(minutes=m) and timedelta(days=d), in minutes
Minutes(m) == m
Days(d) == d * MinutesPerDay

\* how far one step of the clock moves it
TickMinutes == {MinutesPerDay}

(***************************************************************************)
(* Card                                                                    *)
(***************************************************************************)
\* a card stored without next_review_date, the column left NULL
NewCardNoDueDate(id, deck_id, t) ==
    [ id                 |-> id,
      deck_id            |-> deck_id,
      state              |-> "new",
      learning_step      |-> 0,
      interval_days      |-> 0,
      ease_factor        |-> 250,
      reviews            |-> 0,
      next_review_date   |-> None,
      last_reviewed_date |-> None,
      introduction_date  |-> None ]

\* a card as create_card stores it: the column defaults of the cards table
NewCard(id, deck_id, t) ==
    [ id                 |-> id,
      deck_id            |-> deck_id,
      state              |-> "new",
      learning_step      |-> 0,
      interval_days      |-> 0,
      ease_factor        |-> 250,
      reviews            |-> 0,
      next_review_date   |-> t,
      last_reviewed_date |-> None,
      introduction_date  |-> None ]

(***************************************************************************)
(* sm2_algorithm                                                           *)
(***************************************************************************)
\* Python's round(): to the nearest integer, a tie to the even one.
\* x is a nonnegative number of hundredths.
Round(x) ==
    LET q == x \div 100
        r == x % 100
    IN  IF r < 50 THEN q
        ELSE IF r > 50 THEN q + 1
        ELSE IF q % 2 = 0 THEN q ELSE q + 1

\* 0.1 - (5 - quality) * (0.08 + (5 - quality) * 0.02), in hundredths
EaseDelta(q) == 10 - (5 - q) * (8 + (5 - q) * 2)

\* lines 28-29: the lapse penalty
LapseEase(ef) == IF ef > 130 THEN ef - 20 ELSE ef

\* the ease update without its floor
ReviewEaseNoFloor(ef, q) == ef + EaseDelta(q)

\* lines 61-63: the ease update of a correct answer to a review card
ReviewEase(ef, q) ==
    LET e == ef + EaseDelta(q)
    IN  IF e < 130 THEN 130 ELSE e

\* ease_factor REAL DEFAULT 2.5: a float that is exactly its decimal value
DefaultEase == 250

\* round(interval * ease_factor), the values it may take.  The float
\* ease_factor is exact at 2.5; elsewhere it lies a little below, on, or a
\* little above its decimal value, which decides the rounding where the
\* decimal product is halfway between two integers
RoundOutcomes(iv, ef) ==
    LET x == iv * ef
    IN  IF x % 100 = 50 /\ ef # DefaultEase
        THEN {x \div 100, x \div 100 + 1}
        ELSE {Round(x)}

\* the interval always recomputed, the interval == 0 case forgotten
ReviewIntervalNoZeroCase(c, grad) ==
    RoundOutcomes(c.interval_days, c.ease_factor)

\* lines 55-58: the interval of a correct answer to a review card, the
\* values it may take
ReviewInterval(c, grad) ==
    IF c.interval_days = 0 THEN {grad}
    ELSE RoundOutcomes(c.interval_days, c.ease_factor)

\* the first learning step, no delay when there is none
FirstStepDefaultZero(steps) == IF Len(steps) > 0 THEN steps[1] ELSE 0

\* the first learning step, a day when there is none
FirstStepDefaultDay(steps) == IF Len(steps) > 0 THEN steps[1] ELSE MinutesPerDay

\* line 32: the first learning step, 10 minutes when there is none
FirstStep(steps) == IF Len(steps) > 0 THEN steps[1] ELSE 10

\* graduation that leaves interval_days as it was
GraduateNoInterval(c, grad, t) ==
    [c EXCEPT !.state = "review",
              !.next_review_date = t + Minutes(grad)]

\* lines 45-51: graduation; the interval is applied with timedelta(minutes=...)
Graduate(c, grad, t) ==
    [c EXCEPT !.state = "review",
              !.interval_days = grad,
              !.next_review_date = t + Minutes(grad)]

\* the ease factor updated before the interval is computed from it
ReviewCorrectEaseFirst(c, q, grad, t) ==
    LET e == [c EXCEPT !.ease_factor = ReviewEase(c.ease_factor, q)]
    IN  {[e EXCEPT !.interval_days = iv,
                   !.next_review_date = t + Minutes(iv)] :
            iv \in ReviewInterval(e, grad)}

\* lines 53-66: a correct answer to a review card, the cards it may give
ReviewCorrect(c, q, grad, t) ==
    {[c EXCEPT !.interval_days = iv,
               !.ease_factor = ReviewEase(c.ease_factor, q),
               !.next_review_date = t + Minutes(iv)] :
        iv \in ReviewInterval(c, grad)}

\* introduction_date stamped by every answer
StampAlways(c, t, d) ==
    [c EXCEPT !.last_reviewed_date = t, !.introduction_date = d]

\* lines 16-20: last_reviewed_date, and introduction_date of a new card
Stamp(c, t, d) ==
    [c EXCEPT !.last_reviewed_date = t,
              !.introduction_date =
                  IF c.state = "new" THEN d ELSE c.introduction_date]

\* an incorrect answer that leaves the interval as it was
LapseKeepsInterval(c, steps, t) ==
    [c EXCEPT !.reviews = c.reviews + 1,
              !.learning_step = 0,
              !.state = "learning",
              !.ease_factor = LapseEase(c.ease_factor),
              !.next_review_date = t + Minutes(FirstStep(steps))]

\* an incorrect answer that leaves learning_step as it was
LapseKeepsStep(c, steps, t) ==
    [c EXCEPT !.reviews = c.reviews + 1,
              !.state = "learning",
              !.interval_days = 0,
              !.ease_factor = LapseEase(c.ease_factor),
              !.next_review_date = t + Minutes(FirstStep(steps))]

\* an incorrect answer that is not counted as a review
LapseNotCounted(c, steps, t) ==
    [c EXCEPT !.learning_step = 0,
              !.state = "learning",
              !.interval_days = 0,
              !.ease_factor = LapseEase(c.ease_factor),
              !.next_review_date = t + Minutes(FirstStep(steps))]

\* an incorrect answer that makes the card new again
LapseToNew(c, steps, t) ==
    [c EXCEPT !.reviews = c.reviews + 1,
              !.learning_step = 0,
              !.state = "new",
              !.interval_days = 0,
              !.ease_factor = LapseEase(c.ease_factor),
              !.next_review_date = t + Minutes(FirstStep(steps))]

\* lines 22-33: an incorrect answer
Lapse(c, steps, t) ==
    [c EXCEPT !.reviews = c.reviews + 1,
              !.learning_step = 0,
              !.state = "learning",
              !.interval_days = 0,
              !.ease_factor = LapseEase(c.ease_factor),
              !.next_review_date = t + Minutes(FirstStep(steps))]

\* a correct answer that graduates one learning step early
CorrectGraduatesEarly(c, q, steps, grad, t) ==
    LET r == [c EXCEPT !.reviews = c.reviews + 1]
    IN  IF c.state \in {"learning", "new"}
        THEN IF c.learning_step + 1 < Len(steps)
             THEN {[r EXCEPT !.state = "learning",
                             !.next_review_date = t + Minutes(steps[c.learning_step + 1]),
                             !.learning_step = c.learning_step + 1]}
             ELSE {Graduate(r, grad, t)}
        ELSE IF c.state = "review"
             THEN ReviewCorrect(r, q, grad, t)
             ELSE {r}

\* a correct answer that does not advance learning_step
CorrectStepNotAdvanced(c, q, steps, grad, t) ==
    LET r == [c EXCEPT !.reviews = c.reviews + 1]
    IN  IF c.state \in {"learning", "new"}
        THEN IF c.learning_step < Len(steps)
             THEN {[r EXCEPT !.state = "learning",
                             !.next_review_date = t + Minutes(steps[c.learning_step + 1])]}
             ELSE {Graduate(r, grad, t)}
        ELSE IF c.state = "review"
             THEN ReviewCorrect(r, q, grad, t)
             ELSE {r}

\* lines 35-66: a correct answer, the cards it may give
Correct(c, q, steps, grad, t) ==
    LET r == [c EXCEPT !.reviews = c.reviews + 1]
    IN  IF c.state \in {"learning", "new"}
        THEN IF c.learning_step < Len(steps)
             THEN {[r EXCEPT !.state = "learning",
                             !.next_review_date = t + Minutes(steps[c.learning_step + 1]),
                             !.learning_step = c.learning_step + 1]}
             ELSE {Graduate(r, grad, t)}
        ELSE IF c.state = "review"
             THEN ReviewCorrect(r, q, grad, t)
             ELSE {r}

\* sm2_algorithm(card, quality, learning_steps_minutes, graduating_interval_days);
\* t1 is the datetime.now() of line 16, d the date.today() of line 20 and t2
\* the datetime.now() of the branch taken; the set of cards it may return
sm2_algorithm(c, q, steps, grad, t1, d, t2) ==
    LET s == Stamp(c, t1, d)
    IN  IF q < 3 THEN {Lapse(s, steps, t2)}
        ELSE Correct(s, q, steps, grad, t2)

(***************************************************************************)
(* ISO strings and their comparison in SQL                                 *)
(***************************************************************************)
\* datetime.isoformat(): "YYYY-MM-DDTHH:MM...", the date and then the time of
\* day; date.isoformat(): "YYYY-MM-DD", the date alone
IsoDateTime(t) == <<Date(t), t % MinutesPerDay>>
IsoDate(d) == <<d>>

\* SQL date(text): the date part of a stored timestamp
SqlDate(iso) == <<iso[1]>>

\* TEXT <= TEXT: the order of strings, a proper prefix before its extensions
StrLeq(a, b) ==
    \/ a[1] < b[1]
    \/ /\ a[1] = b[1]
       /\ \/ Len(a) = 1
          \/ Len(a) = 2 /\ Len(b) = 2 /\ a[2] <= b[2]

(***************************************************************************)
(* crud.py: the queues of a deck                                           *)
(***************************************************************************)
CardIds == 1..NumCards

\* the deck of the model
DeckId == 1

\* no row: cursor.fetchone() is None
NoCard == 0

InDeck(cs, deck_id) == {i \in DOMAIN cs : cs[i].deck_id = deck_id}

\* the learning cards due strictly before now
LearningQueueStrict(cs, deck_id, t) ==
    {i \in InDeck(cs, deck_id) :
        /\ cs[i].state = "learning"
        /\ StrLeq(IsoDateTime(cs[i].next_review_date), IsoDateTime(t))
        /\ cs[i].next_review_date # t}

\* WHERE deck_id = ? AND state = 'learning' AND next_review_date <= now_iso
LearningQueue(cs, deck_id, t) ==
    {i \in InDeck(cs, deck_id) :
        /\ cs[i].state = "learning"
        /\ StrLeq(IsoDateTime(cs[i].next_review_date), IsoDateTime(t))}

\* the stored timestamp compared with today's date, date(...) left out
ReviewQueueNoDate(cs, deck_id, d) ==
    {i \in InDeck(cs, deck_id) :
        /\ cs[i].state = "review"
        /\ StrLeq(IsoDateTime(cs[i].next_review_date), IsoDate(d))}

\* WHERE deck_id = ? AND state = 'review' AND date(next_review_date) <= today_iso
ReviewQueue(cs, deck_id, d) ==
    {i \in InDeck(cs, deck_id) :
        /\ cs[i].state = "review"
        /\ StrLeq(SqlDate(IsoDateTime(cs[i].next_review_date)), IsoDate(d))}

\* WHERE deck_id = ? AND state = 'new'
NewQueue(cs, deck_id) ==
    {i \in InDeck(cs, deck_id) : cs[i].state = "new"}

\* ORDER BY next_review_date ASC LIMIT 1: a row no other row precedes; SQL
\* leaves the choice among rows of equal next_review_date open
FirstByDue(cs, q) ==
    {i \in q : \A j \in q :
        StrLeq(IsoDateTime(cs[i].next_review_date),
               IsoDateTime(cs[j].next_review_date))}

\* ORDER BY id ASC LIMIT 1
FirstById(q) == {i \in q : \A j \in q : i <= j}

\* the cards introduced today counted among the cards still new
get_new_cards_rated_today_still_new(cs, deck_id, d) ==
    Cardinality({i \in InDeck(cs, deck_id) :
        /\ cs[i].state = "new"
        /\ cs[i].introduction_date # None
        /\ cs[i].introduction_date = d})

\* SELECT COUNT(*) FROM cards WHERE deck_id = ? AND date(introduction_date) = today
get_new_cards_rated_today(cs, deck_id, d) ==
    Cardinality({i \in InDeck(cs, deck_id) :
        /\ cs[i].introduction_date # None
        /\ cs[i].introduction_date = d})

\* the new-card step with the quota compared by <= instead of <
NewCardUpToLimit(cs, deck_id, new_card_limit, d) ==
    IF /\ get_new_cards_rated_today(cs, deck_id, d) <= new_card_limit
       /\ NewQueue(cs, deck_id) # {}
    THEN FirstById(NewQueue(cs, deck_id))
    ELSE {NoCard}

\* the new-card step of get_next_card_for_review: the rows it may return
NewCardUnderLimit(cs, deck_id, new_card_limit, d) ==
    IF /\ get_new_cards_rated_today(cs, deck_id, d) < new_card_limit
       /\ NewQueue(cs, deck_id) # {}
    THEN FirstById(NewQueue(cs, deck_id))
    ELSE {NoCard}

\* the queues asked in the order review, learning, new
get_next_card_review_first(cs, deck_id, new_card_limit, t, d) ==
    IF ReviewQueue(cs, deck_id, d) # {}
    THEN FirstByDue(cs, ReviewQueue(cs, deck_id, d))
    ELSE IF LearningQueue(cs, deck_id, t) # {}
         THEN FirstByDue(cs, LearningQueue(cs, deck_id, t))
         ELSE NewCardUnderLimit(cs, deck_id, new_card_limit, d)

\* the queues asked in the order learning, new, review
get_next_card_new_before_review(cs, deck_id, new_card_limit, t, d) ==
    IF LearningQueue(cs, deck_id, t) # {}
    THEN FirstByDue(cs, LearningQueue(cs, deck_id, t))
    ELSE IF NoCard \notin NewCardUnderLimit(cs, deck_id, new_card_limit, d)
         THEN NewCardUnderLimit(cs, deck_id, new_card_limit, d)
         ELSE IF ReviewQueue(cs, deck_id, d) # {}
              THEN FirstByDue(cs, ReviewQueue(cs, deck_id, d))
              ELSE {NoCard}

\* get_next_card_for_review(db, deck_id, new_card_limit, total_limit): the set
\* of ids it may return, {NoCard} for None; t is datetime.now(), d date.today()
get_next_card_for_review(cs, deck_id, new_card_limit, t, d) ==
    IF LearningQueue(cs, deck_id, t) # {}
    THEN FirstByDue(cs, LearningQueue(cs, deck_id, t))
    ELSE IF ReviewQueue(cs, deck_id, d) # {}
         THEN FirstByDue(cs, ReviewQueue(cs, deck_id, d))
         ELSE NewCardUnderLimit(cs, deck_id, new_card_limit, d)

\* the counts with the cards introduced today taken off the new cards
get_queue_counts_less_introduced(cs, deck_id, t, d) ==
    LET introduced == get_new_cards_rated_today(cs, deck_id, d)
        actual == Cardinality(NewQueue(cs, deck_id))
    IN  [ learning |-> Cardinality(LearningQueue(cs, deck_id, t)),
          review   |-> Cardinality({i \in InDeck(cs, deck_id) :
                          /\ cs[i].state = "review"
                          /\ StrLeq(IsoDateTime(cs[i].next_review_date), IsoDate(d))}),
          new      |-> IF introduced < actual THEN actual - introduced ELSE 0 ]

\* get_queue_counts(db, deck_id, new_card_limit); the review query compares the
\* stored timestamp itself with today's date string
get_queue_counts(cs, deck_id, t, d) ==
    [ learning |-> Cardinality(LearningQueue(cs, deck_id, t)),
      review   |-> Cardinality({i \in InDeck(cs, deck_id) :
                      /\ cs[i].state = "review"
                      /\ StrLeq(IsoDateTime(cs[i].next_review_date), IsoDate(d))}),
      new      |-> Cardinality(NewQueue(cs, deck_id)) ]

\* the events of today counted over every deck
get_reviews_done_today_any_deck(h, deck_id, d) ==
    Cardinality({k \in 1..Len(h) :
        SqlDate(IsoDateTime(h[k].review_timestamp)) = IsoDate(d)})

\* get_reviews_done_today(db, deck_id)
get_reviews_done_today(h, deck_id, d) ==
    Cardinality({k \in 1..Len(h) :
        /\ h[k].deck_id = deck_id
        /\ SqlDate(IsoDateTime(h[k].review_timestamp)) = IsoDate(d)})

\* log_review(db, deck_id, card_id, quality)
log_review(h, deck_id, card_id, q, t) ==
    Append(h, [deck_id |-> deck_id, card_id |-> card_id,
               review_timestamp |-> t, quality |-> q])

(***************************************************************************)
(* main.py: the effective settings                                         *)
(***************************************************************************)
\* crud.get_setting(db, name) or default, then int(): a stored value, "0"
\* included, is a non-empty string and is used; only a missing row gives the default
GlobalSetting(v, default) == IF v = None THEN default ELSE v

\* deck.<column> or global: NULL and the integer 0 both give the global value
DeckOr(v, global) == IF v = None \/ v = 0 THEN global ELSE v

DefaultNewCards == 5
DefaultMaxReviews == 20
DefaultGraduatingInterval == 4
DefaultLearningSteps == "10 1440"

effective_new_cards ==
    DeckOr(deck.new_cards_per_day,
           GlobalSetting(settings.new_cards_per_day, DefaultNewCards))

effective_max_reviews ==
    DeckOr(deck.max_reviews_per_day,
           GlobalSetting(settings.max_reviews_per_day, DefaultMaxReviews))

effective_grad_interval ==
    DeckOr(deck.graduating_interval,
           GlobalSetting(settings.graduating_interval, DefaultGraduatingInterval))

\* deck.learning_steps or (get_setting(...) or "10 1440"): None and "" are falsy
effective_steps_str ==
    LET g == IF settings.learning_steps \in {"None", ""}
             THEN DefaultLearningSteps ELSE settings.learning_steps
    IN  IF deck.learning_steps \in {"None", ""} THEN g ELSE deck.learning_steps

\* [int(step) for step in effective_steps_str.split()], for the strings stored
StepsOf(str) ==
    CASE str = "10 1440" -> <<10, 1440>>
      [] str = "10"      -> <<10>>
      [] str = " "       -> <<>>

(***************************************************************************)
(* main.py: the requests                                                   *)
(***************************************************************************)
NoCounts == [learning |-> None, review |-> None, new |-> None]

\* the gate letting one more review through: > for >=
LimitReachedStrictly(h, deck_id, d) ==
    get_reviews_done_today(h, deck_id, d) > effective_max_reviews

\* the daily-review gate of study_deck
LimitReached(h, deck_id, d) ==
    get_reviews_done_today(h, deck_id, d) >= effective_max_reviews

\* no request was answered since the clock last moved
NoResponse == [kind |-> "none", message |-> "",
               current_card |-> NoCard, queue_counts |-> NoCounts]

\* the browser sessions studying the deck
Sessions == {1, 2}

\* a session with no study page open
NoPage == [current_card |-> NoCard, reviews |-> 0]

NoPages == [s \in Sessions |-> NoPage]

\* study_deck: the pages it may answer with
StudyResponses ==
    IF LimitReached(history, DeckId, Date(now))
    THEN {[kind |-> "study", message |-> "limit",
           current_card |-> NoCard, queue_counts |-> NoCounts]}
    ELSE {[kind |-> "study",
           message |-> IF id = NoCard THEN "done" ELSE "card",
           current_card |-> id,
           queue_counts |-> get_queue_counts(cards, DeckId, now, Date(now))] :
             id \in get_next_card_for_review(cards, DeckId,
                        effective_new_cards, now, Date(now))}

\* GET /study/{deck_id}
StudyDeck ==
    /\ response' \in StudyResponses
    /\ UNCHANGED <<now, ticks, cards, history, deck, settings, pages>>
    /\ UNCHANGED schedVars

\* the answer computed from the card as it was created, not as it is stored
SubmitReviewFromNew(card_id, q) ==
    /\ Len(history) < MaxReviews
    /\ card_id \in DOMAIN cards
    /\ history' = log_review(history, DeckId, card_id, q, now)
    /\ \E c \in sm2_algorithm(NewCard(card_id, DeckId, 0), q,
                              StepsOf(effective_steps_str),
                              effective_grad_interval, now, Date(now), now) :
          cards' = [cards EXCEPT ![card_id] = c]
    /\ response' = [kind |-> "redirect", message |-> "",
                    current_card |-> NoCard, queue_counts |-> NoCounts]
    /\ UNCHANGED <<now, ticks, deck, settings>>
    /\ UNCHANGED schedVars

\* POST /submit_review/{deck_id} with card_id and quality: what it does to
\* the tables and what it answers
SubmitReview(card_id, q) ==
    /\ Len(history) < MaxReviews
    /\ card_id \in DOMAIN cards
    /\ history' = log_review(history, DeckId, card_id, q, now)
    /\ \E c \in sm2_algorithm(cards[card_id], q, StepsOf(effective_steps_str),
                              effective_grad_interval, now, Date(now), now) :
          cards' = [cards EXCEPT ![card_id] = c]
    /\ response' = [kind |-> "redirect", message |-> "",
                    current_card |-> NoCard, queue_counts |-> NoCounts]
    /\ UNCHANGED <<now, ticks, deck, settings>>
    /\ UNCHANGED schedVars

\* the qualities submitted to the deck
DeckQualities == {1, 4}

Submit ==
    /\ \E id \in CardIds, q \in DeckQualities : SubmitReview(id, q)
    /\ UNCHANGED pages

\* the clock advances: ten minutes, or a day
DeckTickMinutes == {10, MinutesPerDay}

Wait ==
    /\ ticks < MaxTicks
    /\ \E d \in DeckTickMinutes : now' = now + d
    /\ ticks' = ticks + 1
    /\ response' = NoResponse
    /\ UNCHANGED <<cards, history, deck, settings, pages>>
    /\ UNCHANGED schedVars

\* the settings a deck starts with, as (deck's own value, global value):
\* no limit set and a blank ladder; small limits and one step on the deck;
\* every limit 0 and the default ladder
SettingsProfiles ==
    { [new |-> <<None, None>>, max |-> <<None, None>>, steps |-> <<" ", "None">>],
      [new |-> <<1, None>>,    max |-> <<2, None>>,    steps |-> <<"10", "None">>],
      [new |-> <<0, 0>>,       max |-> <<0, 0>>,       steps |-> <<"None", "None">>] }

\* the deck row and the settings table hold one of the profiles ps
DeckSettingsOf(ps) ==
    \E p \in ps :
        /\ deck = [new_cards_per_day |-> p.new[1], max_reviews_per_day |-> p.max[1],
                   learning_steps |-> p.steps[1], graduating_interval |-> None]
        /\ settings = [new_cards_per_day |-> p.new[2], max_reviews_per_day |-> p.max[2],
                       learning_steps |-> p.steps[2], graduating_interval |-> None]

DeckSettings == DeckSettingsOf(SettingsProfiles)

\* the scheduler's card, unused by the deck
SchedIdle ==
    /\ card = NewCard(1, DeckId, 0)
    /\ policy = [steps |-> <<>>, grad |-> DefaultGraduatingInterval]
    /\ calls = 0
    /\ call = [quality |-> 0, at |-> 0, policy |-> policy, streak |-> 0]
    /\ prev = NewCard(1, DeckId, 0)

\* the deck's tables, unused by the scheduler on one card
DeckIdle ==
    /\ cards = <<>>
    /\ history = <<>>
    /\ deck = [new_cards_per_day |-> None, max_reviews_per_day |-> None,
               learning_steps |-> "None", graduating_interval |-> None]
    /\ settings = [new_cards_per_day |-> None, max_reviews_per_day |-> None,
                   learning_steps |-> "None", graduating_interval |-> None]
    /\ response = NoResponse
    /\ pages = NoPages

\* a deck of NumCards cards just created, nothing reviewed, its settings one
\* of the profiles ps
InitDeckWith(ps) ==
    /\ now = 0
    /\ ticks = 0
    /\ cards = [i \in CardIds |-> NewCard(i, DeckId, 0)]
    /\ history = <<>>
    /\ DeckSettingsOf(ps)
    /\ response = NoResponse
    /\ pages = NoPages
    /\ SchedIdle

InitDeck == InitDeckWith(SettingsProfiles)

NextDeck == Wait \/ StudyDeck \/ Submit

SpecDeck == InitDeck /\ [][NextDeck]_vars

(***************************************************************************)
(* Two sessions studying one deck                                          *)
(***************************************************************************)
\* session s opens GET /study/{deck_id}: the page shows the card next_card
\* returned, as it is in the cards table at that moment
SessionStudy(s) ==
    /\ \E r \in StudyResponses :
          /\ response' = r
          /\ pages' = [pages EXCEPT ![s] =
                 [current_card |-> r.current_card,
                  reviews |-> IF r.current_card = NoCard THEN 0
                              ELSE cards[r.current_card].reviews]]
    /\ UNCHANGED <<now, ticks, cards, history, deck, settings>>
    /\ UNCHANGED schedVars

\* session s answers the card of its page: the form posts the page's card_id
\* to /submit_review/{deck_id}, and the redirect leaves the page
SessionSubmit(s) ==
    /\ pages[s].current_card # NoCard
    /\ \E q \in DeckQualities : SubmitReview(pages[s].current_card, q)
    /\ pages' = [pages EXCEPT ![s] = NoPage]

NextSessions ==
    \/ Wait
    \/ \E s \in Sessions : SessionStudy(s)
    \/ \E s \in Sessions : SessionSubmit(s)

SpecSessions == InitDeck /\ [][NextSessions]_vars

\* a deck whose own max_reviews_per_day is 1
GateProfiles ==
    { [new |-> <<None, None>>, max |-> <<1, None>>, steps |-> <<"10", "None">>] }

InitGate == InitDeckWith(GateProfiles)

SpecGate == InitGate /\ [][NextSessions]_vars

(***************************************************************************)
(* A deck that cards are added to                                          *)
(***************************************************************************)
\* crud.create_card(db, card): the row is inserted under the next id with
\* next_review_date = datetime.now().isoformat(), and read back
CreateCard ==
    /\ Len(cards) < MaxCreated
    /\ cards' = Append(cards, NewCard(Len(cards) + 1, DeckId, now))
    /\ response' = NoResponse
    /\ UNCHANGED <<now, ticks, history, deck, settings, pages>>
    /\ UNCHANGED schedVars

\* a deck just created, without cards
InitCreate ==
    /\ now = 0
    /\ ticks = 0
    /\ cards = <<>>
    /\ history = <<>>
    /\ DeckSettings
    /\ response = NoResponse
    /\ pages = NoPages
    /\ SchedIdle

NextCreate == Wait \/ CreateCard \/ StudyDeck \/ Submit

SpecCreate == InitCreate /\ [][NextCreate]_vars

(***************************************************************************)
(* The review history of two decks                                         *)
(***************************************************************************)
\* the deck of the model and a second deck, with the next id
DeckIds == {DeckId, DeckId + 1}

\* the quality the logged reviews carry
LoggedQualities == {3}

\* crud.log_review(db, deck_id, card_id, quality), called for a deck
LogReview ==
    /\ Len(history) < MaxEvents
    /\ \E deck_id \in DeckIds, q \in LoggedQualities :
          history' = log_review(history, deck_id, 1, q, now)
    /\ response' = NoResponse
    /\ UNCHANGED <<now, ticks, cards, deck, settings, pages>>
    /\ UNCHANGED schedVars

NextHistory == Wait \/ LogReview \/ StudyDeck

SpecHistory == InitDeck /\ [][NextHistory]_vars

(***************************************************************************)
(* Decks whose own value of a limit is 0                                   *)
(***************************************************************************)
\* the deck's new_cards_per_day is 0, the global value is unset or 2
OverrideProfiles ==
    { [new |-> <<0, None>>, max |-> <<None, None>>, steps |-> <<" ", "None">>],
      [new |-> <<0, 2>>,    max |-> <<None, None>>, steps |-> <<"10", "None">>] }

InitOverride == InitDeckWith(OverrideProfiles)

SpecOverride == InitOverride /\ [][NextDeck]_vars

(***************************************************************************)
(* submit_review for any deck id of the URL                                *)
(***************************************************************************)
\* the deck ids a request may name: the two decks and an id no deck has
UrlDeckIds == DeckIds \cup {DeckId + 2}

\* crud.get_deck(db, deck_id) of an existing deck: the second deck sets nothing
DeckRow(deck_id) ==
    IF deck_id = DeckId THEN deck
    ELSE [new_cards_per_day |-> None, max_reviews_per_day |-> None,
          learning_steps |-> "None", graduating_interval |-> None]

\* deck.learning_steps or global_steps_str, for the row of a deck
StepsStrOf(row) ==
    LET g == IF settings.learning_steps \in {"None", ""}
             THEN DefaultLearningSteps ELSE settings.learning_steps
    IN  IF row.learning_steps \in {"None", ""} THEN g ELSE row.learning_steps

\* deck.graduating_interval or global_grad_interval, for the row of a deck
GradIntervalOf(row) ==
    DeckOr(row.graduating_interval,
           GlobalSetting(settings.graduating_interval, DefaultGraduatingInterval))

\* int(step) succeeds for every step of the string
Parses(str) == str \in {"10 1440", "10", " "}

\* the server's answer to a request whose handler raised
ServerError == [kind |-> "error", message |-> "",
                current_card |-> NoCard, queue_counts |-> NoCounts]

\* POST /submit_review/{deck_id} with card_id and quality, whatever deck_id
\* is: the event is logged and committed first; deck.learning_steps of a
\* missing deck and int() of a step that is no number raise, and the card
\* is not updated
SubmitReviewAt(deck_id, card_id, q) ==
    /\ Len(history) < MaxReviews
    /\ card_id \in DOMAIN cards
    /\ history' = log_review(history, deck_id, card_id, q, now)
    /\ IF deck_id \notin DeckIds \/ ~Parses(StepsStrOf(DeckRow(deck_id)))
       THEN /\ cards' = cards
            /\ response' = ServerError
       ELSE /\ \E c \in sm2_algorithm(cards[card_id], q,
                                       StepsOf(StepsStrOf(DeckRow(deck_id))),
                                       GradIntervalOf(DeckRow(deck_id)),
                                       now, Date(now), now) :
                  cards' = [cards EXCEPT ![card_id] = c]
            /\ response' = [kind |-> "redirect", message |-> "",
                            current_card |-> NoCard, queue_counts |-> NoCounts]
    /\ UNCHANGED <<now, ticks, deck, settings, pages>>
    /\ UNCHANGED schedVars

\* requests for the existing decks
SubmitExisting ==
    \E deck_id \in DeckIds, id \in CardIds, q \in DeckQualities :
        SubmitReviewAt(deck_id, id, q)

NextExisting == Wait \/ StudyDeck \/ SubmitExisting

SpecExisting == InitDeck /\ [][NextExisting]_vars

\* requests for any deck id
SubmitAnyDeck ==
    \E deck_id \in UrlDeckIds, id \in CardIds, q \in DeckQualities :
        SubmitReviewAt(deck_id, id, q)

\* the settings as saved by the forms: the default ladder, or global
\* learning steps written with a comma
RequestProfiles ==
    { [new |-> <<None, None>>, max |-> <<None, None>>, steps |-> <<"None", "None">>],
      [new |-> <<None, None>>, max |-> <<None, None>>, steps |-> <<"None", "10,1440">>] }

InitRequests == InitDeckWith(RequestProfiles)

NextRequests == Wait \/ StudyDeck \/ SubmitAnyDeck

SpecRequests == InitRequests /\ [][NextRequests]_vars

(***************************************************************************)
(* The study page over the card collections of a deck                      *)
(***************************************************************************)
\* the study page is asked at noon of day 1
Noon == MinutesPerDay + 720

\* the instants a card of the collection is due at: 23:59 yesterday, 00:00
\* today, now, a minute from now, 00:01 tomorrow
QueueDueTimes == {MinutesPerDay - 1, MinutesPerDay, Noon, Noon + 1,
                  2 * MinutesPerDay + 1}

\* a card answered wrongly once, today, and due at t
LearningRow(id, t) ==
    [Lapse(Stamp(NewCard(id, DeckId, 0), Noon, Date(Noon)), <<>>, Noon)
        EXCEPT !.next_review_date = t]

\* a card graduated by its first answer, on day 0, and due at t
ReviewRow(id, t) ==
    [Graduate(Stamp(NewCard(id, DeckId, 0), 0, 0), DefaultGraduatingInterval, 0)
        EXCEPT !.reviews = 1, !.next_review_date = t]

\* what a card of the collection may be: never answered, or in learning or
\* in review and due at one of the instants
QueueRowKinds ==
    {<<"new", 0>>} \cup ({"learning", "review"} \X QueueDueTimes)

QueueRow(id, k) ==
    CASE k[1] = "new"      -> NewCard(id, DeckId, k[2])
      [] k[1] = "learning" -> LearningRow(id, k[2])
      [] k[1] = "review"   -> ReviewRow(id, k[2])

\* any collection of NumCards such cards, no review logged today
InitQueue ==
    /\ now = Noon
    /\ ticks = 0
    /\ \E k \in [CardIds -> QueueRowKinds] :
          cards = [i \in CardIds |-> QueueRow(i, k[i])]
    /\ history = <<>>
    /\ DeckSettings
    /\ response = NoResponse
    /\ pages = NoPages
    /\ SchedIdle

NextQueue == StudyDeck

SpecQueue == InitQueue /\ [][NextQueue]_vars

(***************************************************************************)
(* The scheduler on one card                                               *)
(***************************************************************************)
\* the quality values of the contract, and the integers around them
Qualities == 0..5
AnyQuality == -1..6

\* the deck policies tried: the ladders of the tests and the empty one, with
\* a positive graduating interval
Ladders == { <<>>, <<10>>, <<10, 1440>> }
GraduatingIntervals == {1, 4}
Policies == [steps : Ladders, grad : GraduatingIntervals]

\* the settings forms take any integer as graduating interval, 0 included
SettablePolicies == [steps : Ladders, grad : {0} \cup GraduatingIntervals]

\* a card just created, and the policy one of ps
InitWith(ps) ==
    /\ now = 0
    /\ ticks = 0
    /\ card = NewCard(1, DeckId, 0)
    /\ policy \in ps
    /\ calls = 0
    /\ call = [quality |-> 0, at |-> 0, policy |-> policy, streak |-> 0]
    /\ prev = NewCard(1, DeckId, 0)
    /\ DeckIdle

Init == InitWith(Policies)

InitPolicy == InitWith(SettablePolicies)

\* the clock advances
Tick ==
    /\ ticks < MaxTicks
    /\ \E d \in TickMinutes : now' = now + d
    /\ ticks' = ticks + 1
    /\ UNCHANGED <<card, policy, calls, call, prev>>
    /\ UNCHANGED deckVars

\* the settings are saved with other values between two answers
SetPolicy ==
    /\ \E p \in SettablePolicies \ {policy} : policy' = p
    /\ UNCHANGED <<now, ticks, card, calls, call, prev>>
    /\ UNCHANGED deckVars

\* one call of sm2_algorithm with the clock frozen, as the tests make it;
\* max bounds the length of the run
Answer(q, max) ==
    /\ calls < max
    /\ card' \in sm2_algorithm(card, q, policy.steps, policy.grad,
                               now, Date(now), now)
    /\ calls' = calls + 1
    /\ call' = [quality |-> q, at |-> now, policy |-> policy,
                streak |-> IF q < 3 THEN 0 ELSE call.streak + 1]
    /\ prev' = card
    /\ UNCHANGED <<now, ticks, policy>>
    /\ UNCHANGED deckVars

AnswerValid == \E q \in Qualities : Answer(q, MaxAnswers)

AnswerInvalid == \E q \in AnyQuality \ Qualities : Answer(q, MaxPolicyAnswers)

AnswerEarly == \E q \in Qualities : Answer(q, MaxPolicyAnswers)

\* answers in 0..5 under one policy
Next == Tick \/ AnswerValid

Spec == Init /\ [][Next]_vars

\* answers in 0..5 while the settings change (the scheduler reads no clock to
\* choose a branch or an interval: the clock stands still here)
NextPolicy == SetPolicy \/ AnswerEarly

SpecPolicy == InitPolicy /\ [][NextPolicy]_vars

\* answers of any quality under one policy
NextAnyQuality == Tick \/ AnswerEarly \/ AnswerInvalid

SpecAnyQuality == Init /\ [][NextAnyQuality]_vars

(***************************************************************************)
(* The scheduler while the clock runs                                      *)
(***************************************************************************)
\* minutes that pass between two clock reads of one call
ClockSteps == {0, 1}

\* the card is created and first answered at 23:59 of day 0
InitClock ==
    /\ now = MinutesPerDay - 1
    /\ ticks = 0
    /\ card = NewCard(1, DeckId, MinutesPerDay - 1)
    /\ policy \in Policies
    /\ calls = 0
    /\ call = [quality |-> 0, at |-> now, policy |-> policy, streak |-> 0]
    /\ prev = NewCard(1, DeckId, MinutesPerDay - 1)
    /\ DeckIdle

\* one call of sm2_algorithm on the system clock: datetime.now() of line 16
\* reads now, date.today() of line 20 and datetime.now() of the branch taken
\* (line 33, 43, 51 or 66) read the clock again, each a step later or not
AnswerClockRunning ==
    /\ calls < MaxClockAnswers
    /\ \E q \in Qualities, s1 \in ClockSteps, s2 \in ClockSteps :
          /\ card' \in sm2_algorithm(card, q, policy.steps, policy.grad,
                                     now, Date(now + s1), now + s1 + s2)
          /\ call' = [quality |-> q, at |-> now, policy |-> policy,
                streak |-> IF q < 3 THEN 0 ELSE call.streak + 1]
          /\ now' = now + s1 + s2
    /\ calls' = calls + 1
    /\ prev' = card
    /\ UNCHANGED <<ticks, policy>>
    /\ UNCHANGED deckVars

NextClock == Tick \/ AnswerClockRunning

SpecClock == InitClock /\ [][NextClock]_vars

(***************************************************************************)
(* Properties of the scheduler                                             *)
(***************************************************************************)
\* the latest call was an answer of quality >= 3 / of quality < 3
Answered == calls > 0
AnsweredCorrect == Answered /\ call.quality >= 3
AnsweredLapse == Answered /\ call.quality < 3

\* C1: after any sequence of answers with qualities in 0..5 on a card created
\* with ease_factor 2.5, ease_factor >= 1.3
C1_EaseFactorFloor == card.ease_factor >= 130

\* C2: an answer with a quality outside 0..5 is rejected before any mutation:
\* every field of the card is left as it was
C2_InvalidQualityRejected ==
    (Answered /\ call.quality \notin Qualities) => card = prev

\* C3: a correct answer that graduates a new or learning card sets
\* next_due_at = now + graduating_interval days
C3_GraduationDueInDays ==
    (AnsweredCorrect /\ prev.state \in {"new", "learning"} /\ card.state = "review")
        => card.next_review_date = call.at + Days(call.policy.grad)

\* C4: a correct answer on a review card sets next_due_at = now + interval'
\* days, interval' being the interval this answer computed
C4_ReviewDueInDays ==
    (AnsweredCorrect /\ prev.state = "review")
        => card.next_review_date = call.at + Days(card.interval_days)

\* C7: introduced_at is stamped by the first answer, given while the card is
\* new, and no later answer on any day changes it
C7_IntroducedOnce ==
    /\ ~Answered => card.introduction_date = None
    /\ Answered => card.introduction_date # None
    /\ (Answered /\ prev.state = "new") => card.introduction_date = Date(call.at)
    /\ (Answered /\ prev.state # "new") =>
           card.introduction_date = prev.introduction_date

\* a second or later answer, given on a later day than the introduction
C7_Witness ==
    /\ calls >= 2
    /\ prev.state # "new"
    /\ Date(call.at) > card.introduction_date
    /\ card.introduction_date # None

\* C8: after a correct answer on a review card, under a graduating interval
\* >= 1, the interval is >= 1: the graduating interval when it was 0, and
\* round(interval * ease_factor) when it was positive
C8_ReviewIntervalPositive ==
    (AnsweredCorrect /\ prev.state = "review" /\ call.policy.grad >= 1) =>
        /\ card.interval_days >= 1
        /\ prev.interval_days = 0 => card.interval_days = call.policy.grad

\* a correct answer on a review card whose interval was 0
C8_Witness ==
    /\ AnsweredCorrect
    /\ prev.state = "review"
    /\ prev.interval_days = 0
    /\ call.policy.grad >= 1
    /\ card.interval_days >= 1

\* C9: learning_step is nonzero only while state = learning
C9_LearningStepOnlyInLearning ==
    card.learning_step # 0 => card.state = "learning"

\* C15: a lapse (quality < 3) on a card in any state yields state = learning,
\* learning_step = 0, interval = 0 and next_due_at = now + the first learning
\* step of the policy
C15_LapseResult ==
    AnsweredLapse =>
        /\ card.state = "learning"
        /\ card.learning_step = 0
        /\ card.interval_days = 0
        /\ Len(call.policy.steps) > 0 =>
               card.next_review_date = call.at + Minutes(call.policy.steps[1])

\* a lapse on a review card of positive interval, under a ladder with a first
\* step, on a later day than the card was created
C15_Witness ==
    /\ AnsweredLapse
    /\ prev.state = "review"
    /\ prev.interval_days > 0
    /\ Len(call.policy.steps) > 0
    /\ call.at > 0
    /\ card.state = "learning"

\* C16: a correct answer on a new or learning card graduates it (state =
\* review, interval = graduating_interval) exactly when learning_step is not
\* below the ladder length; otherwise the card is in learning afterwards
C16_GraduationCondition ==
    (AnsweredCorrect /\ prev.state \in {"new", "learning"}) =>
        IF prev.learning_step >= Len(call.policy.steps)
        THEN /\ card.state = "review"
             /\ card.interval_days = call.policy.grad
        ELSE /\ card.state = "learning"
             /\ card.interval_days = prev.interval_days

\* the first correct answer on a new card with an empty ladder graduates it
C16_Witness ==
    /\ AnsweredCorrect
    /\ prev.state = "new"
    /\ call.policy.steps = <<>>
    /\ card.state = "review"
    /\ card.interval_days = call.policy.grad

\* C17: a correct answer on a new or learning card with learning_step = k
\* below the ladder length sets state = learning, next_due_at = now +
\* ladder[k] minutes and learning_step = k + 1, and leaves interval and
\* ease_factor unchanged
C17_LearningStepAdvance ==
    (/\ AnsweredCorrect
     /\ prev.state \in {"new", "learning"}
     /\ prev.learning_step < Len(call.policy.steps)) =>
        /\ card.state = "learning"
        /\ card.next_review_date =
               call.at + Minutes(call.policy.steps[prev.learning_step + 1])
        /\ card.learning_step = prev.learning_step + 1
        /\ card.interval_days = prev.interval_days
        /\ card.ease_factor = prev.ease_factor

\* Scenario B: a learning card at step 1 of [10, 1440] answered correctly
C17_Witness ==
    /\ AnsweredCorrect
    /\ prev.state = "learning"
    /\ prev.learning_step = 1
    /\ call.policy.steps = <<10, 1440>>
    /\ card.learning_step = 2
    /\ card.next_review_date = call.at + 1440

Max(a, b) == IF a >= b THEN a ELSE b

\* the change of ease_factor the contract gives for a correct answer, in
\* hundredths
EaseChange(q) == CASE q = 3 -> -14 [] q = 4 -> 0 [] q = 5 -> 10

\* C18: a correct answer with quality q on a review card changes ease_factor
\* by -0.14 for q = 3, 0 for q = 4 and +0.10 for q = 5, and then floors the
\* result at 1.3
C18_ReviewEaseUpdate ==
    (AnsweredCorrect /\ prev.state = "review") =>
        card.ease_factor = Max(130, prev.ease_factor + EaseChange(call.quality))

\* the floor acts: the change alone would leave ease_factor below 1.3
C18_Witness ==
    /\ AnsweredCorrect
    /\ prev.state = "review"
    /\ prev.ease_factor + EaseChange(call.quality) < 130
    /\ card.ease_factor = 130

\* C19: on a correct answer to a review card with interval > 0, the new
\* interval is round(interval * ease_factor) with the ease_factor held
\* before this answer's ease update (where that product is halfway between
\* two integers in decimal, the float product rounds to one of the two)
C19_IntervalUsesOldEase ==
    (AnsweredCorrect /\ prev.state = "review" /\ prev.interval_days > 0) =>
        card.interval_days \in RoundOutcomes(prev.interval_days, prev.ease_factor)

\* Scenario D: interval 10, ease 2.5, quality 3 gives interval 25, ease 2.36
C19_Witness ==
    /\ AnsweredCorrect
    /\ prev.state = "review"
    /\ prev.interval_days = 10
    /\ prev.ease_factor = 250
    /\ call.quality = 3
    /\ card.interval_days = 25
    /\ card.ease_factor = 236

\* C20: on every lapse, in any state, the ease factor becomes
\* max(1.3, ease_factor - 0.2)
C20_LapseEasePenalty ==
    AnsweredLapse => card.ease_factor = Max(130, prev.ease_factor - 20)

\* C21: a lapse under a policy with an empty learning ladder does not fail:
\* the card is in learning with learning_step = 0 and next_due_at = now + 10
\* minutes
C21_EmptyLadderLapse ==
    (AnsweredLapse /\ call.policy.steps = <<>>) =>
        /\ card.state = "learning"
        /\ card.learning_step = 0
        /\ card.next_review_date = call.at + Minutes(10)

\* a review card lapses under the empty ladder, on a later day
C21_Witness ==
    /\ AnsweredLapse
    /\ call.policy.steps = <<>>
    /\ prev.state = "review"
    /\ call.at > 0
    /\ card.next_review_date = call.at + 10

\* C25: every answer with quality in 0..5, lapse or correct, on a card in any
\* state, increases reviews by exactly 1 and sets last_reviewed_at to now
C25_ReviewsCounted ==
    (Answered /\ call.quality \in Qualities) =>
        /\ card.reviews = prev.reviews + 1
        /\ card.last_reviewed_date = call.at

\* a lapse on a card answered before, on a later day than its last answer
C25_Witness ==
    /\ AnsweredLapse
    /\ prev.reviews >= 1
    /\ prev.last_reviewed_date # None
    /\ call.at > prev.last_reviewed_date
    /\ card.reviews = prev.reviews + 1

\* C28: a correct answer moves the state only along new -> learning,
\* learning -> learning, learning -> review and review -> review (new ->
\* review only with an empty ladder), a lapse moves it into learning, and no
\* answer puts a card back into new
C28_StateTransitions ==
    Answered =>
        /\ card.state # "new"
        /\ AnsweredLapse => card.state = "learning"
        /\ AnsweredCorrect =>
               /\ prev.state = "new" => card.state \in {"learning", "review"}
               /\ (prev.state = "new" /\ card.state = "review") =>
                      call.policy.steps = <<>>
               /\ prev.state = "learning" => card.state \in {"learning", "review"}
               /\ prev.state = "review" => card.state = "review"
        /\ (prev.state = "review" /\ card.state = "learning") => AnsweredLapse

\* a card that went new -> learning -> learning -> review is put back into
\* learning by a lapse
C28_Witness ==
    /\ AnsweredLapse
    /\ call.policy.steps = <<10, 1440>>
    /\ prev.state = "review"
    /\ card.state = "learning"

\* C32: in every state a created card reaches by answers, under a graduating
\* interval >= 1, a review card has interval >= 1 and a new or learning card
\* has interval 0, so a review card never takes the interval == 0 branch
C32_IntervalByState ==
    policy.grad >= 1 =>
        /\ card.state = "review" => card.interval_days >= 1
        /\ card.state \in {"new", "learning"} => card.interval_days = 0
        /\ (Answered /\ prev.state = "review") => prev.interval_days >= 1

\* a review card with a grown interval is answered correctly once more
C32_Witness ==
    /\ AnsweredCorrect
    /\ prev.state = "review"
    /\ prev.interval_days > policy.grad
    /\ card.interval_days > prev.interval_days

\* C38: from a new card or a card just lapsed, under a ladder of n steps, a
\* run of correct answers graduates the card on exactly the (n+1)-th answer:
\* the card is in learning after 1..n of them and in review from the
\* (n+1)-th on
C38_GraduatesAfterLadder ==
    LET n == Len(policy.steps)
    IN  /\ (call.streak >= 1 /\ call.streak <= n) => card.state = "learning"
        /\ call.streak >= n + 1 => card.state = "review"
        /\ call.streak = 0 => card.state \in {"new", "learning"}

\* a review card lapsed and then graduates again by the third correct answer
\* of the two-step ladder
C38_Witness ==
    /\ policy.steps = <<10, 1440>>
    /\ call.streak = 3
    /\ calls > 3 + 3
    /\ prev.state = "learning"
    /\ card.state = "review"

\* C39: after an answer under a policy whose learning steps and graduating
\* interval are all positive, next_due_at is later than the instant of the
\* answer, and the card is not learning-due at that instant
C39_DueAfterAnswer ==
    (/\ Answered
     /\ call.policy.grad > 0
     /\ \A k \in 1..Len(call.policy.steps) : call.policy.steps[k] > 0) =>
        /\ card.next_review_date > call.at
        /\ LearningQueue(<<card>>, card.deck_id, call.at) = {}

\* a card put into learning by a lapse under the empty ladder, on a later day
C39_Witness ==
    /\ AnsweredLapse
    /\ call.policy.steps = <<>>
    /\ call.at >= MinutesPerDay
    /\ card.state = "learning"
    /\ card.next_review_date > call.at

\* C29: an answer uses one instant, the now of the call, even when the clock
\* advances while the call runs: last_reviewed_at is now, introduced_at is
\* taken from the same now, and next_due_at is now plus the delay applied
\* (stated for the delays counted in minutes: the first learning step after
\* a lapse, the learning step taken after a correct answer)
C29_SingleInstant ==
    Answered =>
        /\ card.last_reviewed_date = call.at
        /\ prev.state = "new" => card.introduction_date = Date(call.at)
        /\ AnsweredLapse =>
               card.next_review_date =
                   call.at + Minutes(FirstStep(call.policy.steps))
        /\ (/\ AnsweredCorrect
            /\ prev.state \in {"new", "learning"}
            /\ prev.learning_step < Len(call.policy.steps)) =>
               card.next_review_date =
                   call.at + Minutes(call.policy.steps[prev.learning_step + 1])

(***************************************************************************)
(* Properties of the queue selection and of the study page                 *)
(***************************************************************************)
\* due-ness as the specification words it: a learning card by the instant, a
\* review card by the calendar day
LearningDue == {i \in CardIds : /\ cards[i].state = "learning"
                                /\ cards[i].next_review_date <= now}
ReviewDue == {i \in CardIds : /\ cards[i].state = "review"
                              /\ Date(cards[i].next_review_date) <= Date(now)}
NewCards == {i \in CardIds : cards[i].state = "new"}

\* new_introduced_today
IntroducedToday ==
    Cardinality({i \in CardIds : cards[i].introduction_date = Date(now)})

\* the new-card limits next_card is asked with
NewCardLimits == 0..DefaultNewCards

\* the study page shows what next_card returned (the gate let the request pass)
Selected == response.kind = "study" /\ response.message # "limit"

\* C5: when a learning card is due now and a review card is due today,
\* next_card returns a learning-due card, whatever the new-card limit
C5_PriorityLaw ==
    (LearningDue # {} /\ ReviewDue # {}) =>
        /\ \A lim \in NewCardLimits :
              get_next_card_for_review(cards, DeckId, lim, now, Date(now))
                  \subseteq LearningDue
        /\ Selected => response.current_card \in LearningDue

\* the study page shows a learning card while a review card is due as well
C5_Witness ==
    /\ Selected
    /\ LearningDue # {}
    /\ ReviewDue # {}
    /\ response.current_card \in LearningDue

\* C6: once new_introduced_today has reached the new-card limit, next_card
\* returns no new card, and returns none when no learning or review card is due
C6_QuotaLaw ==
    /\ \A lim \in NewCardLimits :
          IntroducedToday >= lim =>
              \A r \in get_next_card_for_review(cards, DeckId, lim, now, Date(now)) :
                  /\ r \notin NewCards
                  /\ (LearningDue = {} /\ ReviewDue = {}) => r = NoCard
    /\ (Selected /\ IntroducedToday >= effective_new_cards) =>
          /\ response.current_card \notin NewCards
          /\ (LearningDue = {} /\ ReviewDue = {}) => response.current_card = NoCard

\* the quota of a positive limit is used up, new cards remain, nothing is due,
\* and the study page shows no card
C6_Witness ==
    /\ Selected
    /\ effective_new_cards > 0
    /\ IntroducedToday = effective_new_cards
    /\ NewCards # {}
    /\ LearningDue = {}
    /\ ReviewDue = {}
    /\ response.current_card = NoCard

\* reviews_done_today
ReviewsDoneToday == get_reviews_done_today(history, DeckId, Date(now))

\* C11: when the effective review_daily_limit is > 0 and reviews_done_today
\* has reached it, the study step hands out no card, whatever is due
C11_DailyLimitGate ==
    (/\ response.kind = "study"
     /\ effective_max_reviews > 0
     /\ ReviewsDoneToday >= effective_max_reviews) =>
        /\ response.current_card = NoCard
        /\ response.message = "limit"

\* the limit is reached while a learning card is due, and no card is shown
C11_Witness ==
    /\ response.kind = "study"
    /\ effective_max_reviews > 0
    /\ ReviewsDoneToday >= effective_max_reviews
    /\ LearningDue # {}
    /\ response.current_card = NoCard

\* C12: queue_counts reports as review the number of review cards whose
\* next_due_at falls on today's date or earlier, the cards next_card treats
\* as review-due
C12_ReviewCountIsReviewDue ==
    Selected => response.queue_counts.review = Cardinality(ReviewDue)

\* card i comes before card j in a queue: the smaller next_due_at first, and
\* the smaller id first among equal next_due_at
Before(i, j) ==
    \/ cards[i].next_review_date < cards[j].next_review_date
    \/ /\ cards[i].next_review_date = cards[j].next_review_date
       /\ i <= j

NextCard(lim) == get_next_card_for_review(cards, DeckId, lim, now, Date(now))

\* r is a card next_card may return under C14: a learning card only if due
\* by the instant, a review card only if due by the calendar day, and a due
\* card whenever there is one
DueByDayOrInstant(r) ==
    /\ (r \in CardIds /\ cards[r].state = "learning") => r \in LearningDue
    /\ (r \in CardIds /\ cards[r].state = "review") => r \in ReviewDue
    /\ LearningDue # {} => r \in LearningDue
    /\ (LearningDue = {} /\ ReviewDue # {}) => r \in ReviewDue

\* C14: next_card takes a review card as due iff the date of next_due_at is
\* today or earlier, and a learning card iff next_due_at <= now
C14_DueByDayOrInstant ==
    /\ \A lim \in NewCardLimits : \A r \in NextCard(lim) : DueByDayOrInstant(r)
    /\ Selected => DueByDayOrInstant(response.current_card)

\* the study page shows a review card due later today, while a learning card
\* due in a minute and a review card due tomorrow wait
C14_Witness ==
    /\ Selected
    /\ response.current_card \in ReviewDue
    /\ cards[response.current_card].next_review_date > now
    /\ \E i \in CardIds : /\ cards[i].state = "learning"
                           /\ cards[i].next_review_date > now
    /\ \E i \in CardIds : /\ cards[i].state = "review"
                           /\ Date(cards[i].next_review_date) > Date(now)

\* the card is as a card never answered is: new, no interval, ease 2.5
Fresh(c) ==
    /\ c.state = "new"
    /\ c.reviews = 0
    /\ c.interval_days = 0
    /\ c.ease_factor = 250
    /\ c.learning_step = 0

EventsOn(deck_id, d) ==
    {k \in 1..Len(history) : /\ history[k].deck_id = deck_id
                             /\ Date(history[k].review_timestamp) = d}

\* C26: reviews_done_today of a deck is the number of events logged for that
\* deck with a timestamp on today's date: events of earlier days and of other
\* decks are not counted, so the count is 0 again once the date has advanced
C26_ReviewsDoneToday ==
    /\ ReviewsDoneToday = Cardinality(EventsOn(DeckId, Date(now)))
    /\ (\A k \in 1..Len(history) :
            Date(history[k].review_timestamp) < Date(now)) =>
          ReviewsDoneToday = 0

\* the deck has an event of an earlier day and one of today, the other deck
\* has one of today, and one review is counted
C26_Witness ==
    /\ \E d \in 0..(Date(now) - 1) : EventsOn(DeckId, d) # {}
    /\ EventsOn(DeckId + 1, Date(now)) # {}
    /\ Cardinality(EventsOn(DeckId, Date(now))) = 1
    /\ ReviewsDoneToday = 1

\* C22: with no learning card due, a review card due today and new cards
\* within the quota, next_card returns a review-due card; over the successive
\* calls of a session a new card is returned only when neither a learning-due
\* nor a review-due card exists
C22_ReviewBeforeNew ==
    /\ \A lim \in NewCardLimits : \A r \in NextCard(lim) :
          /\ (LearningDue = {} /\ ReviewDue # {}) => r \in ReviewDue
          /\ r \in NewCards => (LearningDue = {} /\ ReviewDue = {})
    /\ Selected =>
          /\ (LearningDue = {} /\ ReviewDue # {}) =>
                 response.current_card \in ReviewDue
          /\ response.current_card \in NewCards =>
                 (LearningDue = {} /\ ReviewDue = {})

\* the study page shows a review-due card while new cards wait within the quota
C22_Witness ==
    /\ Selected
    /\ LearningDue = {}
    /\ response.current_card \in ReviewDue
    /\ NewCards # {}
    /\ IntroducedToday < effective_new_cards

\* nothing is left for next_card under the new-card limit lim
NothingToStudy(lim) ==
    /\ LearningDue = {}
    /\ ReviewDue = {}
    /\ NewCards = {} \/ IntroducedToday >= lim

\* C23: next_card returns none exactly when no learning card is due now, no
\* review card is due today or earlier, and there is no new card or
\* new_introduced_today >= the new-card limit; otherwise it returns a card
C23_NoneExactlyWhenNothingDue ==
    /\ \A lim \in NewCardLimits :
          IF NothingToStudy(lim)
          THEN NextCard(lim) = {NoCard}
          ELSE NextCard(lim) # {} /\ NextCard(lim) \subseteq CardIds
    /\ Selected =>
          (response.current_card = NoCard <=> NothingToStudy(effective_new_cards))

\* the study page shows no card while a learning card is due in a minute and
\* a review card tomorrow, and no new card is left
C23_Witness ==
    /\ Selected
    /\ response.current_card = NoCard
    /\ NewCards = {}
    /\ \E i \in CardIds : /\ cards[i].state = "learning"
                           /\ cards[i].next_review_date = now + 1
    /\ \E i \in CardIds : /\ cards[i].state = "review"
                           /\ Date(cards[i].next_review_date) = Date(now) + 1

\* C24: the new count of queue_counts is the number of all cards of the deck
\* in state new, whatever the new-card limit and new_introduced_today are
C24_NewCountIsAllNew ==
    Selected => response.queue_counts.new = Cardinality(NewCards)

\* the quota of a positive limit is used up and the page still counts the
\* new cards next_card will not hand out today
C24_Witness ==
    /\ Selected
    /\ effective_new_cards > 0
    /\ IntroducedToday >= effective_new_cards
    /\ response.queue_counts.new = Cardinality(NewCards)
    /\ response.queue_counts.new >= 2

\* C33: after a graduation or a correct answer on a review card, with a
\* graduating interval >= 1, next_due_at falls on a later calendar date, and
\* next_card does not hand the card out again on the day of that answer
C33_NotAgainSameDay ==
    effective_grad_interval >= 1 =>
        /\ \A c \in CardIds :
              cards[c].state = "review" =>
                  Date(cards[c].next_review_date) >
                      Date(cards[c].last_reviewed_date)
        /\ (Selected /\ response.current_card # NoCard) =>
              ~ /\ cards[response.current_card].state = "review"
                /\ Date(cards[response.current_card].last_reviewed_date)
                       = Date(now)

\* session s holds card c: its page shows c, handed out by next_card, and c
\* was not answered since
Holds(s, c) ==
    /\ pages[s].current_card = c
    /\ cards[c].reviews = pages[s].reviews

\* C30: the selection-then-answer cycles of the sessions on a deck are
\* serialized: two sessions never both hold the same due card handed out by
\* next_card and not yet answered
C30_NoCardHeldTwice ==
    \A c \in CardIds : Cardinality({s \in Sessions : Holds(s, c)}) <= 1

\* the events logged for card c
EventsOf(c) == {k \in 1..Len(history) : history[k].card_id = c}

C36_EventsWithinLimit ==
    effective_max_reviews > 0 =>
        \A d \in 0..Date(now) :
            Cardinality(EventsOn(DeckId, d)) <= effective_max_reviews

\* C37: with answers submitted only for cards next_card handed out, the cards
\* of the deck introduced on one day never exceed the new-card limit,
\* whatever the sessions and their interleaving
C37_IntroducedWithinLimit ==
    \A d \in 0..Date(now) :
        Cardinality({c \in CardIds : cards[c].introduction_date = d})
            <= effective_new_cards

\* the limit of 1 is used up by a card that two sessions were shown and one
\* has answered; new cards are left and the study page hands out none, while
\* the other session still has the answered card on its page
C37_Witness ==
    /\ effective_new_cards = 1
    /\ IntroducedToday = 1
    /\ NewCards # {}
    /\ Selected
    /\ response.current_card = NoCard
    /\ \E s \in Sessions :
          /\ pages[s].current_card # NoCard
          /\ cards[pages[s].current_card].introduction_date = Date(now)

\* C34: submit_review stores the review event and the updated card as one
\* unit: no step stores an event without storing the update of its card,
\* also when the deck of the URL does not exist or the learning steps
\* cannot be parsed
C34_EventWithCardUpdate ==
    [][ Len(history') > Len(history) =>
            cards'[history'[Len(history')].card_id]
                # cards[history'[Len(history')].card_id] ]_vars

\* C35: after submit_review requests run one after the other on existing
\* cards of existing decks, each card's reviews is the number of events
\* logged with its id, and each event carries the quality submitted and the
\* deck its card belongs to
C35_EventsMatchCards ==
    /\ \A c \in CardIds : cards[c].reviews = Cardinality(EventsOf(c))
    /\ \A k \in 1..Len(history) :
          /\ history[k].quality \in DeckQualities
          /\ history[k].deck_id = cards[history[k].card_id].deck_id

\* C40: the deck's own value of a setting is used whenever the deck sets
\* one, 0 included, and the global value only when it sets none: a deck
\* whose new_cards_per_day is 0 is never handed a new card
C40_DeckValueWins ==
    (Selected /\ deck.new_cards_per_day = 0) =>
        response.current_card \notin NewCards

\* C10: an effective review_daily_limit of 0 means unlimited: the daily-review
\* gate never stops the study step
C10_ZeroLimitUnlimited ==
    (response.kind = "study" /\ effective_max_reviews = 0) =>
        response.message # "limit"

====
